---- MODULE Spec2Model ----
(***************************************************************************)
(* Model of scripts/deploy-webhook.py: the webhook receiver that           *)
(* authenticates POST /deploy requests and runs scripts/sync-and-deploy.sh *)
(* as a child process.                                                     *)
(*                                                                         *)
(* The server is http.server.HTTPServer (main, line 173): one request is   *)
(* handled to its end before the next connection is accepted.  A request   *)
(* is handled in steps: Accept, the handler up to the point where it       *)
(* either answers or blocks in subprocess.run, the fate of the child, the  *)
(* handler's tail that writes the result, and the close of the connection. *)
(*                                                                         *)
(* Strings are TLA+ strings.  An optional value (headers.get) is a record  *)
(* [present, value].  A formatted message (an f-string, str(e)) is the     *)
(* sequence of its parts.  A captured stream is the interval [from, to) of *)
(* the units the child wrote.  HMAC-SHA256 is a symbolic digest: one       *)
(* string per (key, message), different for different pairs.               *)
(*                                                                         *)
(* The module also models automem/embedding/gemini.py, the embedding       *)
(* provider: a call, the answer of the remote API, and what                *)
(* generate_embedding and generate_embeddings_batch return or raise.  The  *)
(* two programs share no state: Spec runs the webhook with the provider    *)
(* idle, EmbedSpec the provider with the webhook idle, and FairSpec is     *)
(* Spec with the server's own steps weakly fair.                           *)
(***************************************************************************)
EXTENDS Naturals, Sequences, FiniteSets, TLC

VARIABLES
    WEBHOOK_SECRET,  \* configuration, read once at import (line 27)
    pc,              \* where the handling thread is
    req,             \* the request being handled
    script,          \* what the handler found at script_path on disk
    conn,            \* the client connection: "open" or "broken"
    responses,       \* responses put on the wire for this request
    invocations,     \* subprocess.run calls made for this request
    child,           \* the child process of this request
    result,          \* what subprocess.run handed back
    raised,          \* exception that left the handler, "" if none
    auth,            \* the decision of lines 62-68, "" while not taken
    action,          \* the action of line 75, "" while not taken
    handled,         \* requests closed so far
    logfile,         \* LOG_FILE as the handler's last log call found it
    traceback,       \* the handler of an earlier request raised
    self_dimension,  \* GeminiEmbeddingProvider._dimension
    provider_pc,     \* where a call of the embedding provider is
    call,            \* the method called and the number of texts passed
    api,             \* what client.models.embed_content handed back
    returned,        \* the vectors the call returned
    embed_exc        \* the exception the call raised, "" if none

vars == <<WEBHOOK_SECRET, pc, req, script, conn, responses, invocations,
          child, result, raised, auth, action, handled, logfile,
          traceback, self_dimension, provider_pc, call, api, returned,
          embed_exc>>

provider_vars ==
    <<self_dimension, provider_pc, call, api, returned, embed_exc>>

webhook_vars ==
    <<WEBHOOK_SECRET, pc, req, script, conn, responses, invocations, child,
      result, raised, auth, action, handled, logfile, traceback>>

-----------------------------------------------------------------------------
(* Bounds and program constants *)

MaxRequests == 2

DEPLOY_TIMEOUT == 300
CHECK_TIMEOUT == 60
TAIL == 1000

AUTOMEM_DIR == "/opt/automem"
script_path == AUTOMEM_DIR \o "/scripts/sync-and-deploy.sh"

-----------------------------------------------------------------------------
(* Optional values and strings *)

None == [present |-> FALSE, value |-> ""]
Some(s) == [present |-> TRUE, value |-> s]

\* Python truthiness of a header value: None and "" are falsy.
Truthy(h) == h.present /\ h.value # ""

\* a or b
Or(a, b) == IF Truthy(a) THEN a ELSE b

\* Values of WEBHOOK_SECRET: empty (open mode), ASCII, and one with a
\* character above 0x7f.
Secrets == {"", "s3cret", "s<E9>cret"}

\* Header values arrive decoded as iso-8859-1; these carry a byte above 0x7f.
NonAsciiStrings == {"s<E9>cret", "sha256=<E9>"}
IsAscii(s) == s \notin NonAsciiStrings

-----------------------------------------------------------------------------
(* Request bodies and json.loads *)

EmptyBody == ""
Bodies == {EmptyBody, "{}", "{\"action\":\"deploy\"}", "{\"action\":\"check\"}",
           "{\"action\":\"restart\"}", "{\"action\":null}",
           "{\"source\":\"ci\"}", "not json", "[]", "<FF>"}

\* A body one byte away from b: b with one more byte.
MutateBody(b) == b \o "~"

\* json.loads(payload): the parsed value, or the exception it raises.
\* "<FF>" is a byte that is not valid UTF-8: the decode inside json.loads
\* raises UnicodeDecodeError, which is not a JSONDecodeError.
json_loads(payload) ==
    CASE payload = "{}" -> [exc |-> "", type |-> "dict", action |-> None]
      [] payload = "{\"action\":\"deploy\"}" ->
            [exc |-> "", type |-> "dict", action |-> Some("deploy")]
      [] payload = "{\"action\":\"check\"}" ->
            [exc |-> "", type |-> "dict", action |-> Some("check")]
      [] payload = "{\"action\":\"restart\"}" ->
            [exc |-> "", type |-> "dict", action |-> Some("restart")]
      [] payload = "{\"action\":null}" ->
            [exc |-> "", type |-> "dict", action |-> Some("None")]
      [] payload = "{\"source\":\"ci\"}" ->
            [exc |-> "", type |-> "dict", action |-> None]
      [] payload = "[]" -> [exc |-> "", type |-> "list", action |-> None]
      [] payload = "<FF>" ->
            [exc |-> "UnicodeDecodeError", type |-> "", action |-> None]
      [] OTHER -> [exc |-> "JSONDecodeError", type |-> "", action |-> None]

\* Lines 70-73: data = json.loads(payload) if payload else {}, with
\* JSONDecodeError (and only it) turned into {}.
ParseBody(payload) ==
    IF payload = EmptyBody
    THEN [exc |-> "", type |-> "dict", action |-> None]
    ELSE LET v == json_loads(payload) IN
         IF v.exc = "JSONDecodeError"
         THEN [exc |-> "", type |-> "dict", action |-> None]
         ELSE v

\* ActionOf with every value other than "check" taken for the default.
ActionOf_UnknownIsDeploy(data) ==
    IF data.exc # "" THEN [exc |-> data.exc, action |-> ""]
    ELSE IF data.type # "dict" THEN [exc |-> "AttributeError", action |-> ""]
    ELSE [exc |-> "",
          action |-> IF data.action.present /\ data.action.value = "check"
                     THEN "check" ELSE "deploy"]

\* Line 75: data.get("action", "deploy"); a value that is no dict has no get.
ActionOf(data) ==
    IF data.exc # "" THEN [exc |-> data.exc, action |-> ""]
    ELSE IF data.type # "dict" THEN [exc |-> "AttributeError", action |-> ""]
    ELSE [exc |-> "",
          action |-> IF data.action.present THEN data.action.value ELSE "deploy"]

-----------------------------------------------------------------------------
(* Authentication *)

hexdigest(secret, payload) == "hmac(" \o secret \o "," \o payload \o ")"

ExpectedSignature(secret, payload) == "sha256=" \o hexdigest(secret, payload)

\* The expected signature with its last byte changed.
MutateSignature(secret, payload) ==
    "sha256=" \o "hmac(" \o secret \o "," \o payload \o "]"

\* Lines 44-49.  hmac.compare_digest on two str raises TypeError when one of
\* them has a non-ASCII character; the expected value is always ASCII.
verify_signature_raises(payload, signature, secret) ==
    Truthy(signature) /\ ~IsAscii(signature.value)

verify_signature(payload, signature, secret) ==
    /\ Truthy(signature)
    /\ ExpectedSignature(secret, payload) = signature.value

\* Line 62: the header the signature is taken from.
SignatureHeader(r) == Or(r.xws, r.xhs)

\* Authenticate without the "WEBHOOK_SECRET and" of line 63.
Authenticate_NoOpenMode(r, payload, secret) ==
    IF verify_signature_raises(payload, SignatureHeader(r), secret)
    THEN "TypeError"
    ELSE IF verify_signature(payload, SignatureHeader(r), secret)
         THEN "authorized"
    ELSE IF r.xws # Some(secret) THEN "forbidden"
    ELSE "authorized"

\* Lines 62-68: "authorized", "forbidden", or "TypeError" when
\* verify_signature raises.
Authenticate(r, payload, secret) ==
    IF secret = "" THEN "authorized"
    ELSE IF verify_signature_raises(payload, SignatureHeader(r), secret)
         THEN "TypeError"
    ELSE IF verify_signature(payload, SignatureHeader(r), secret)
         THEN "authorized"
    ELSE IF r.xws # Some(secret) THEN "forbidden"
    ELSE "authorized"

-----------------------------------------------------------------------------
(* Requests *)

Methods == {"GET", "POST", "PUT"}
Paths == {"/deploy", "/health", "/other"}

\* Content-Length: absent, the decimal length of the body, or no integer.
ContentLengths == {None, Some("<len>"), Some("abc")}

\* X-Webhook-Secret values a client may send for body b.
SecretHeaders(b) ==
    {None, Some("wrong")} \cup {Some(s) : s \in Secrets}
        \cup {Some(ExpectedSignature(WEBHOOK_SECRET, b))}

\* X-Hub-Signature-256 values a client may send for body b: the valid
\* signature, the signature of a body one byte away, the valid
\* signature with one byte changed, a wrong prefix, a digest that is not
\* hex, and a value with a non-ASCII byte.
SignatureHeaders(b) ==
    {None,
     Some(ExpectedSignature(WEBHOOK_SECRET, b)),
     Some(ExpectedSignature(WEBHOOK_SECRET, MutateBody(b))),
     Some(MutateSignature(WEBHOOK_SECRET, b)),
     Some("sha1=" \o hexdigest(WEBHOOK_SECRET, b)),
     Some("sha256=zz"),
     Some("sha256=<E9>")}

\* The bodies sent under Content-Length header c.  Without a length the
\* handler reads nothing and with a malformed one it raises before it reads
\* (lines 58-59): no body and one body stand for all of them.
BodiesWith(c) ==
    IF c = Some("<len>") THEN Bodies ELSE {EmptyBody, "{\"action\":\"check\"}"}

NoRequest == [method |-> "", path |-> "", cl |-> None, xws |-> None,
              xhs |-> None, body |-> EmptyBody]

\* Line 58: int(self.headers.get("Content-Length", 0)) raises ValueError.
ContentLengthRaises(r) == r.cl.present /\ r.cl.value = "abc"

\* Line 59: self.rfile.read(content_length).
Payload(r) == IF r.cl.present THEN r.body ELSE EmptyBody

ScriptStates == {"executable", "missing", "not_executable"}

-----------------------------------------------------------------------------
(* Child process and captured output *)

Stream(n) == [from |-> 0, to |-> n]
NoStream == Stream(0)
StreamLen(s) == s.to - s.from

\* s[-1000:]
Tail1000(s) ==
    [from |-> IF StreamLen(s) > TAIL THEN s.to - TAIL ELSE s.from, to |-> s.to]

OutputLengths == {TAIL, TAIL + 1}
ReturnCodes == {0, 1}

NoResult == [kind |-> "", returncode |-> 0, stdout |-> NoStream,
             stderr |-> NoStream]

\* Lines 91-97 and 138-144: the arguments of subprocess.run.
DeployInvocation ==
    [argv |-> <<script_path, "--auto">>, timeout |-> DEPLOY_TIMEOUT,
     cwd |-> AUTOMEM_DIR]

\* CheckInvocation with the flag and the timeout of the deploy branch.
CheckInvocation_AsDeploy ==
    [argv |-> <<script_path, "--auto">>, timeout |-> DEPLOY_TIMEOUT,
     cwd |-> AUTOMEM_DIR]

CheckInvocation ==
    [argv |-> <<script_path, "--check">>, timeout |-> CHECK_TIMEOUT,
     cwd |-> AUTOMEM_DIR]

\* str(e) of the OSError subprocess.run raises when the spawn fails.
SpawnErrorText(s) ==
    IF s = "missing"
    THEN <<"[Errno 2] No such file or directory: ", script_path>>
    ELSE <<"[Errno 13] Permission denied: ", script_path>>

SpawnErrorName(s) ==
    IF s = "missing" THEN "FileNotFoundError" ELSE "PermissionError"

-----------------------------------------------------------------------------
(* Responses *)

\* send_error(code, message)
ErrorResponse(code, message) ==
    [code |-> code, kind |-> "error", status |-> "", service |-> "",
     message |-> message, field |-> "", output |-> NoStream,
     complete |-> TRUE]

\* send_response(code) + headers + wfile.write(json.dumps({...}))
JsonResponse(code, status, message, field, output) ==
    [code |-> code, kind |-> "json", status |-> status, service |-> "",
     message |-> message, field |-> field, output |-> output,
     complete |-> TRUE]

\* Lines 155-160: the liveness payload.
HealthResponse ==
    [code |-> 200, kind |-> "json", status |-> "healthy",
     service |-> "automem-webhook", message |-> <<>>, field |-> "",
     output |-> NoStream, complete |-> TRUE]

\* One response written to a connection c that already carries rs.  Writing
\* to a broken connection raises and puts nothing on the wire; bodyFails is
\* the client going away after the headers were written.
WriteOn(rs, c, resp, bodyFails) ==
    IF c = "broken"
    THEN [responses |-> rs, conn |-> c, exc |-> "BrokenPipeError"]
    ELSE IF bodyFails
    THEN [responses |-> Append(rs, [resp EXCEPT !.complete = FALSE]),
          conn |-> "broken", exc |-> "BrokenPipeError"]
    ELSE [responses |-> Append(rs, resp), conn |-> c, exc |-> ""]

Write(resp, bodyFails) == WriteOn(responses, conn, resp, bodyFails)

\* A write inside the try of lines 89-133: an exception reaches
\* "except Exception as e", whose send_error(500, str(e)) writes again.
TryWrite(resp, bodyFails) ==
    LET w == Write(resp, bodyFails) IN
    IF w.exc = "" THEN w
    ELSE WriteOn(w.responses, w.conn,
                 ErrorResponse(500, <<"[Errno 32] Broken pipe">>), FALSE)

\* An exception that leaves the handler: nothing is written.
Propagate(e) == [responses |-> responses, conn |-> conn, exc |-> e]

-----------------------------------------------------------------------------
(* The embedding provider: automem/embedding/gemini.py *)

SmallDimension == 2
DEFAULT_DIMENSION == 768
NORMALIZED_DIMENSION == 3072
MaxTexts == 2

Dimensions == {SmallDimension, DEFAULT_DIMENSION, NORMALIZED_DIMENSION}
Components == {0, 1}

\* A component is num / sqrt(normsq).  The API sends n components c.
Vector(n, c) == [i \in 1..n |-> [num |-> c, normsq |-> 1]]

\* The vectors the API may send when asked for dimension d.
VectorsFor(d) == {Vector(n, c) : n \in {d - 1, d, d + 1}, c \in Components}

\* result of embed_content: an exception, or result.embeddings.
ApiResults(d) ==
    {[exc |-> "APIError", embeddings |-> <<>>]}
        \cup {[exc |-> "", embeddings |-> e] :
                 e \in UNION {[1..k -> VectorsFor(d)] : k \in 0..MaxTexts}}

NoCall == [method |-> "", texts |-> 0]
NoApiResult == [exc |-> "", embeddings |-> <<>>]

\* Lines 197-203.
dimension == self_dimension

\* Line 110: sum(x * x for x in embedding), over the indices lo..hi.
RECURSIVE SumOfSquares(_, _, _)
SumOfSquares(embedding, lo, hi) ==
    IF lo > hi THEN 0
    ELSE IF lo = hi THEN embedding[lo].num * embedding[lo].num
    ELSE LET mid == (lo + hi) \div 2 IN
         SumOfSquares(embedding, lo, mid) + SumOfSquares(embedding, mid + 1, hi)

\* Lines 93-113.
normalize_embedding(embedding) ==
    IF self_dimension = NORMALIZED_DIMENSION THEN embedding
    ELSE LET normsq == SumOfSquares(embedding, 1, Len(embedding)) IN
         IF normsq = 0 THEN embedding
         ELSE [i \in 1..Len(embedding) |->
                  [num |-> embedding[i].num,
                   normsq |-> embedding[i].normsq * normsq]]

\* bad looking at the first vector only.
bad_FirstOnly(embeddings) ==
    IF embeddings # <<>> /\ Len(embeddings[1]) # self_dimension
    THEN 1 ELSE 0

\* Line 180: the first index whose vector has not the configured length,
\* 0 for None.
bad(embeddings) ==
    LET wrong == {i \in 1..Len(embeddings) :
                    Len(embeddings[i]) # self_dimension}
    IN IF wrong = {} THEN 0
       ELSE CHOOSE i \in wrong : \A j \in wrong : i <= j

\* Lines 131-150: what generate_embedding makes of the API's result.
EmbeddingOf(answer) ==
    IF answer.exc # "" THEN [exc |-> answer.exc, vectors |-> <<>>]
    ELSE IF answer.embeddings = <<>>
    THEN [exc |-> "IndexError", vectors |-> <<>>]
    ELSE LET embedding == answer.embeddings[1] IN
         IF Len(embedding) # self_dimension
         THEN [exc |-> "ValueError", vectors |-> <<>>]
         ELSE [exc |-> "", vectors |-> <<normalize_embedding(embedding)>>]

\* Lines 171-195: what generate_embeddings_batch makes of the API's result.
BatchOf(answer) ==
    IF answer.exc # "" THEN [exc |-> answer.exc, vectors |-> <<>>]
    ELSE LET embeddings == answer.embeddings IN
         IF bad(embeddings) # 0
         THEN [exc |-> "ValueError", vectors |-> <<>>]
         ELSE [exc |-> "",
               vectors |-> [i \in 1..Len(embeddings) |->
                               normalize_embedding(embeddings[i])]]

-----------------------------------------------------------------------------
(* Logging *)

LogFileStates == {"writable", "unwritable"}

\* Lines 38-39: open(LOG_FILE, "a") and f.write.
AppendToLogFile(file) == IF file = "writable" THEN "" ELSE "PermissionError"

\* log without the try/except around the append.
log_NoExcept(file) ==
    LET e == AppendToLogFile(file) IN [appended |-> e = "", exc |-> e]

\* Lines 32-41: the line is printed, then appended to LOG_FILE inside a try
\* whose bare except swallows whatever the append raises.
log(file) ==
    LET e == AppendToLogFile(file) IN [appended |-> e = "", exc |-> ""]

\* A step of the handler that starts with a call of log (lines 66, 78, 100,
\* 114, 129, and line 166 under every send_response and send_error): w is
\* what the step does once log has returned.
Logged(file, w) ==
    LET l == log(file) IN IF l.exc = "" THEN w ELSE Propagate(l.exc)

-----------------------------------------------------------------------------
(* The state machine *)

WebhookInit ==
    /\ WEBHOOK_SECRET \in Secrets
    /\ pc = "idle"
    /\ req = NoRequest
    /\ script = "executable"
    /\ conn = "open"
    /\ responses = <<>>
    /\ invocations = <<>>
    /\ child = "none"
    /\ result = NoResult
    /\ raised = ""
    /\ auth = ""
    /\ action = ""
    /\ handled = 0
    /\ logfile = "writable"
    /\ traceback = FALSE

\* GeminiEmbeddingProvider(api_key, dimension = d), no call made yet.
ProviderInit(d) ==
    /\ self_dimension = d
    /\ provider_pc = "idle"
    /\ call = NoCall
    /\ api = NoApiResult
    /\ returned = <<>>
    /\ embed_exc = ""

Init == WebhookInit /\ ProviderInit(DEFAULT_DIMENSION)

\* The handler ends: what it wrote and what it raised.
End(w) ==
    /\ responses' = w.responses
    /\ conn' = w.conn
    /\ raised' = w.exc
    /\ pc' = "done"

\* HTTPServer accepts a connection and reads the request (line 176).
Accept ==
    /\ pc = "idle"
    /\ handled < MaxRequests
    /\ \E m \in Methods, p \in Paths, c \in ContentLengths :
         \E b \in BodiesWith(c) :
         \E s \in SecretHeaders(b), h \in SignatureHeaders(b) :
            req' = [method |-> m, path |-> p, cl |-> c, xws |-> s, xhs |-> h,
                    body |-> b]
    /\ pc' = "received"
    /\ UNCHANGED <<provider_vars, WEBHOOK_SECRET, traceback,
                   logfile, script, conn, responses, invocations,
                   child, result, raised, auth, action, handled>>

\* do_GET with the signature check of do_POST in front of it.
do_GET_RequiresAuth ==
    /\ pc = "received"
    /\ req.method = "GET"
    /\ \E bodyFails \in BOOLEAN :
         IF Authenticate(req, EmptyBody, WEBHOOK_SECRET) # "authorized"
         THEN End(Write(ErrorResponse(403, <<"Invalid signature">>), bodyFails))
         ELSE IF req.path = "/health"
         THEN End(Write(HealthResponse, bodyFails))
         ELSE End(Write(ErrorResponse(404, <<"Not Found">>), bodyFails))
    /\ UNCHANGED <<provider_vars, WEBHOOK_SECRET, traceback,
                   req, script, invocations, child, result,
                   auth, action, handled, logfile>>

\* Lines 153-162, with LOG_FILE in state file: send_response and send_error
\* log the request before they write.
do_GET_with(file) ==
    /\ pc = "received"
    /\ req.method = "GET"
    /\ \E bodyFails \in BOOLEAN :
         IF req.path = "/health"
         THEN End(Logged(file, Write(HealthResponse, bodyFails)))
         ELSE End(Logged(file, Write(ErrorResponse(404, <<"Not Found">>),
                                     bodyFails)))
    /\ UNCHANGED <<provider_vars, WEBHOOK_SECRET, traceback,
                   req, script, invocations, child, result,
                   auth, action, handled>>

\* Lines 153-162.
do_GET == \E file \in LogFileStates : logfile' = file /\ do_GET_with(file)

\* A method WebhookHandler defines no do_<METHOD> for (line 52):
\* BaseHTTPRequestHandler answers 501 through send_error.
UnsupportedMethod_with(file) ==
    /\ pc = "received"
    /\ req.method \notin {"GET", "POST"}
    /\ \E bodyFails \in BOOLEAN :
         End(Logged(file, Write(ErrorResponse(501, <<"Unsupported method (",
                                                     req.method, ")">>),
                                bodyFails)))
    /\ UNCHANGED <<provider_vars, WEBHOOK_SECRET, traceback,
                   req, script, invocations, child, result,
                   auth, action, handled>>

UnsupportedMethod ==
    \E file \in LogFileStates : logfile' = file /\ UnsupportedMethod_with(file)

\* Spawns answering the client before the child has ended.
Spawns_RespondsFirst(inv) ==
    /\ invocations' = Append(invocations, inv)
    /\ child' = "running"
    /\ pc' = "running"
    /\ responses' = Append(responses,
                           JsonResponse(200, "success",
                                        <<"Deployment started">>, "output",
                                        NoStream))
    /\ UNCHANGED <<conn, raised>>

\* subprocess.run is entered with invocation inv and the child starts.
Spawns(inv) ==
    /\ invocations' = Append(invocations, inv)
    /\ child' = "running"
    /\ pc' = "running"
    /\ UNCHANGED <<responses, conn, raised>>

\* Lines 53-97 and 135-151: do_POST up to the point where it has answered,
\* raised, or is blocked in subprocess.run.
do_POST_with(file) ==
    /\ pc = "received"
    /\ req.method = "POST"
    /\ \E bodyFails \in BOOLEAN :
        LET payload == Payload(req)
            decision == Authenticate(req, payload, WEBHOOK_SECRET)
            act == ActionOf(ParseBody(payload))
        IN
        IF req.path # "/deploy"
        THEN /\ End(Logged(file, Write(ErrorResponse(404, <<"Not Found">>),
                                         bodyFails)))
             /\ UNCHANGED <<script, invocations, child, auth, action>>
        ELSE IF ContentLengthRaises(req)
        THEN /\ End(Propagate("ValueError"))
             /\ UNCHANGED <<script, invocations, child, auth, action>>
        ELSE IF decision = "TypeError"
        THEN /\ End(Propagate("TypeError"))
             /\ UNCHANGED <<script, invocations, child, auth, action>>
        ELSE IF decision = "forbidden"
        THEN /\ auth' = "forbidden"
             /\ End(Logged(file, Write(ErrorResponse(403,
                                            <<"Invalid signature">>),
                                        bodyFails)))
             /\ UNCHANGED <<script, invocations, child, action>>
        ELSE IF act.exc # ""
        THEN /\ auth' = "authorized"
             /\ End(Propagate(act.exc))
             /\ UNCHANGED <<script, invocations, child, action>>
        ELSE
        /\ auth' = "authorized"
        /\ action' = act.action
        /\ IF log(file).exc # ""
           THEN \* line 78
                /\ End(Propagate(log(file).exc))
                /\ UNCHANGED <<script, invocations, child>>
           ELSE IF act.action = "deploy"
           THEN \* os.path.exists (line 84), then subprocess.run (line 91)
                /\ script' \in ScriptStates
                /\ IF script' = "missing"
                   THEN /\ End(Write(ErrorResponse(500,
                                    <<"Deploy script not found">>), bodyFails))
                        /\ UNCHANGED <<invocations, child>>
                   ELSE IF script' = "executable"
                   THEN Spawns(DeployInvocation)
                   ELSE /\ invocations' = Append(invocations, DeployInvocation)
                        /\ End(Write(ErrorResponse(500,
                                                   SpawnErrorText(script')),
                                     bodyFails))
                        /\ UNCHANGED child
           ELSE IF act.action = "check"
           THEN \* subprocess.run (line 138)
                /\ script' \in ScriptStates
                /\ IF script' = "executable"
                   THEN Spawns(CheckInvocation)
                   ELSE /\ invocations' = Append(invocations, CheckInvocation)
                        /\ End(Propagate(SpawnErrorName(script')))
                        /\ UNCHANGED child
           ELSE /\ End(Write(ErrorResponse(400, <<"Unknown action: ",
                                                  act.action>>), bodyFails))
                /\ UNCHANGED <<script, invocations, child>>
    /\ UNCHANGED <<provider_vars, WEBHOOK_SECRET, traceback,
                   req, result, handled>>

\* Lines 53-97 and 135-151.
do_POST == \E file \in LogFileStates : logfile' = file /\ do_POST_with(file)

\* The child ends within the timeout: subprocess.run returns a
\* CompletedProcess with the exit code and the captured streams.
ChildExits ==
    /\ pc = "running"
    /\ \E rc \in ReturnCodes, out \in OutputLengths, err \in OutputLengths :
         result' = [kind |-> "CompletedProcess", returncode |-> rc,
                    stdout |-> Stream(out), stderr |-> Stream(err)]
    /\ child' = "exited"
    /\ pc' = "returned"
    /\ UNCHANGED <<provider_vars, WEBHOOK_SECRET, traceback,
                   req, script, conn, responses, invocations,
                   raised, auth, action, handled, logfile>>

\* The timeout of the call expires first: subprocess.run kills the child,
\* waits for it and raises TimeoutExpired.  result is never bound, and the
\* partial output the exception carries is not read (lines 121, 139).
ChildTimesOut ==
    /\ pc = "running"
    /\ result' = [NoResult EXCEPT !.kind = "TimeoutExpired"]
    /\ child' = "killed"
    /\ pc' = "returned"
    /\ UNCHANGED <<provider_vars, WEBHOOK_SECRET, traceback,
                   req, script, conn, responses, invocations,
                   raised, auth, action, handled, logfile>>

\* The child ends but its output does not decode (text=True):
\* subprocess.run raises UnicodeDecodeError.
ChildOutputUndecodable ==
    /\ pc = "running"
    /\ result' = [NoResult EXCEPT !.kind = "UnicodeDecodeError"]
    /\ child' = "exited"
    /\ pc' = "returned"
    /\ UNCHANGED <<provider_vars, WEBHOOK_SECRET, traceback,
                   req, script, conn, responses, invocations,
                   raised, auth, action, handled, logfile>>

\* The client closes its end while the handler is blocked on the child.
ClientDisconnects ==
    /\ pc = "running"
    /\ conn = "open"
    /\ conn' = "broken"
    /\ UNCHANGED <<provider_vars, WEBHOOK_SECRET, traceback,
                   pc, req, script, responses, invocations,
                   child, result, raised, auth, action, handled, logfile>>

\* Lines 99-133: the deploy branch after subprocess.run.
DeployResult(bodyFails) ==
    IF result.kind = "CompletedProcess"
    THEN IF result.returncode = 0
         THEN TryWrite(JsonResponse(200, "success", <<"Deployment completed">>,
                                    "output", Tail1000(result.stdout)),
                       bodyFails)
         ELSE TryWrite(JsonResponse(500, "error", <<"Deployment failed">>,
                                    "error", Tail1000(result.stderr)),
                       bodyFails)
    ELSE IF result.kind = "TimeoutExpired"
    THEN Write(ErrorResponse(504, <<"Deployment timed out">>), bodyFails)
    ELSE Write(ErrorResponse(500, <<"codec can't decode byte">>), bodyFails)

\* Lines 138-148: the check branch after subprocess.run.
CheckResult(bodyFails) ==
    IF result.kind = "CompletedProcess"
    THEN Write(JsonResponse(200, "ok", <<>>, "output", result.stdout),
               bodyFails)
    ELSE Propagate(result.kind)

\* do_POST_result with a second run of the script after a failed one.
do_POST_result_Retry ==
    /\ pc = "returned"
    /\ IF (result.kind # "CompletedProcess" \/ result.returncode # 0)
          /\ Len(invocations) = 1
       THEN /\ invocations' = Append(invocations, invocations[1])
            /\ child' = "running"
            /\ pc' = "running"
            /\ UNCHANGED <<responses, conn, raised>>
       ELSE /\ \E bodyFails \in BOOLEAN :
                 IF action = "deploy"
                 THEN End(DeployResult(bodyFails))
                 ELSE End(CheckResult(bodyFails))
            /\ UNCHANGED <<invocations, child>>
    /\ UNCHANGED <<provider_vars, WEBHOOK_SECRET, traceback,
                   req, script, result, auth, action, handled,
                   logfile>>

\* do_POST from the return of subprocess.run to its end, with LOG_FILE in
\* state file: every path logs (lines 100, 114, 129, 132, 166) before it
\* writes.
do_POST_result_with(file) ==
    /\ pc = "returned"
    /\ \E bodyFails \in BOOLEAN :
         IF action = "deploy"
         THEN End(Logged(file, DeployResult(bodyFails)))
         ELSE IF result.kind = "CompletedProcess"
         THEN End(Logged(file, CheckResult(bodyFails)))
         ELSE End(CheckResult(bodyFails))
    /\ UNCHANGED <<provider_vars, WEBHOOK_SECRET, traceback,
                   req, script, invocations, child, result,
                   auth, action, handled>>

\* do_POST from the return of subprocess.run to its end.
do_POST_result ==
    \E file \in LogFileStates : logfile' = file /\ do_POST_result_with(file)

\* CloseRequest of a server that an exception out of a handler brings down.
CloseRequest_StopsOnError ==
    /\ pc = "done"
    /\ raised = ""
    /\ pc' = "idle"
    /\ req' = NoRequest
    /\ script' = "executable"
    /\ conn' = "open"
    /\ responses' = <<>>
    /\ invocations' = <<>>
    /\ child' = "none"
    /\ result' = NoResult
    /\ raised' = ""
    /\ auth' = ""
    /\ action' = ""
    /\ handled' = handled + 1
    /\ logfile' = "writable"
    /\ UNCHANGED <<provider_vars, WEBHOOK_SECRET, traceback>>

\* The handler has returned or raised: socketserver reports an exception
\* on stderr (handle_error prints the traceback), closes the connection and
\* serves the next one.
CloseRequest ==
    /\ pc = "done"
    /\ pc' = "idle"
    /\ req' = NoRequest
    /\ script' = "executable"
    /\ conn' = "open"
    /\ responses' = <<>>
    /\ invocations' = <<>>
    /\ child' = "none"
    /\ result' = NoResult
    /\ raised' = ""
    /\ auth' = ""
    /\ action' = ""
    /\ handled' = handled + 1
    /\ logfile' = "writable"
    /\ traceback' = (traceback \/ raised # "")
    /\ UNCHANGED <<provider_vars, WEBHOOK_SECRET>>

Next ==
    \/ Accept
    \/ do_GET
    \/ UnsupportedMethod
    \/ do_POST
    \/ ChildExits
    \/ ChildTimesOut
    \/ ChildOutputUndecodable
    \/ ClientDisconnects
    \/ do_POST_result
    \/ CloseRequest

Spec == Init /\ [][Next]_vars

-----------------------------------------------------------------------------
(* The embedding provider's calls *)

\* A caller invokes generate_embedding(text) or
\* generate_embeddings_batch(texts).
Call ==
    /\ provider_pc = "idle"
    /\ \/ call' = [method |-> "generate_embedding", texts |-> 1]
       \/ \E n \in 0..MaxTexts :
            call' = [method |-> "generate_embeddings_batch", texts |-> n]
    /\ provider_pc' = "called"
    /\ api' = NoApiResult
    /\ returned' = <<>>
    /\ embed_exc' = ""
    /\ UNCHANGED <<webhook_vars, self_dimension>>

\* Lines 131-135 and 171-175: the remote API answers or fails.  An empty
\* batch never reaches it (lines 164-165).
embed_content ==
    /\ provider_pc = "called"
    /\ ~(call.method = "generate_embeddings_batch" /\ call.texts = 0)
    /\ api' \in ApiResults(self_dimension)
    /\ provider_pc' = "answered"
    /\ UNCHANGED <<webhook_vars, self_dimension, call, returned, embed_exc>>

\* Lines 115-150.
generate_embedding ==
    /\ provider_pc = "answered"
    /\ call.method = "generate_embedding"
    /\ returned' = EmbeddingOf(api).vectors
    /\ embed_exc' = EmbeddingOf(api).exc
    /\ provider_pc' = "returned"
    /\ UNCHANGED <<webhook_vars, self_dimension, call, api>>

\* Lines 152-195.
generate_embeddings_batch ==
    /\ call.method = "generate_embeddings_batch"
    /\ IF call.texts = 0
       THEN /\ provider_pc = "called"
            /\ returned' = <<>>
            /\ embed_exc' = ""
       ELSE /\ provider_pc = "answered"
            /\ returned' = BatchOf(api).vectors
            /\ embed_exc' = BatchOf(api).exc
    /\ provider_pc' = "returned"
    /\ UNCHANGED <<webhook_vars, self_dimension, call, api>>

\* The caller has its answer; the provider is ready for the next call.
Return ==
    /\ provider_pc = "returned"
    /\ provider_pc' = "idle"
    /\ call' = NoCall
    /\ api' = NoApiResult
    /\ returned' = <<>>
    /\ embed_exc' = ""
    /\ UNCHANGED <<webhook_vars, self_dimension>>

EmbedInit == WebhookInit /\ \E d \in Dimensions : ProviderInit(d)

EmbedNext ==
    \/ Call
    \/ embed_content
    \/ generate_embedding
    \/ generate_embeddings_batch
    \/ Return

EmbedSpec == EmbedInit /\ [][EmbedNext]_vars

\* What the server does by itself once a request is in: the handler runs,
\* subprocess.run returns when the child ends or at its timeout (lines 95,
\* 142), and serve_forever closes the request (line 176).
Handling ==
    \/ do_GET
    \/ UnsupportedMethod
    \/ do_POST
    \/ ChildExits
    \/ ChildTimesOut
    \/ ChildOutputUndecodable
    \/ do_POST_result
    \/ CloseRequest

FairSpec == Spec /\ WF_vars(Handling)

-----------------------------------------------------------------------------
(* Vocabulary of the properties *)

Done == pc = "done"

DeployPost == req.method = "POST" /\ req.path = "/deploy"

\* The handler read the body the client sent (lines 58-59 succeeded).
WellFramed == ~ContentLengthRaises(req) /\ Payload(req) = req.body

Codes == {responses[i].code : i \in DOMAIN responses}

\* "sha256=" + hex(HMAC-SHA256(S, B)) for the configured secret and the body.
ValidSignature == "sha256=" \o hexdigest(WEBHOOK_SECRET, req.body)

-----------------------------------------------------------------------------
(* C1 *)

\* C1: every accepted request gets exactly one HTTP response: when the
\* handling of a request has ended, one response has been written, never
\* zero and never two.
C1_ExactlyOneResponse == Done => Len(responses) = 1

-----------------------------------------------------------------------------
(* C2 - C5: authentication *)

\* C2: with a non-empty secret, a POST /deploy whose X-Hub-Signature-256 is
\* the valid signature of its body is not answered 403, whatever
\* X-Webhook-Secret carries.
C2_SignatureAloneAuthorizes ==
    (/\ WEBHOOK_SECRET # ""
     /\ DeployPost
     /\ WellFramed
     /\ req.xhs = Some(ValidSignature))
    => 403 \notin Codes

\* C3: with a non-empty secret S, a POST /deploy whose X-Webhook-Secret is
\* exactly S is authorized, for every body and every X-Hub-Signature-256.
C3_SharedSecretAuthorizes ==
    (/\ Done
     /\ WEBHOOK_SECRET # ""
     /\ DeployPost
     /\ WellFramed
     /\ req.xws = Some(WEBHOOK_SECRET))
    => auth = "authorized"

\* C4: with a non-empty secret S, a POST /deploy whose X-Hub-Signature-256 is
\* absent or not the valid signature of its body, and whose X-Webhook-Secret
\* is absent or not S, is rejected with 403.
C4_NeitherProofRejected ==
    (/\ Done
     /\ WEBHOOK_SECRET # ""
     /\ DeployPost
     /\ WellFramed
     /\ req.xhs # Some(ValidSignature)
     /\ req.xws # Some(WEBHOOK_SECRET))
    => (auth = "forbidden" /\ Codes = {403})

\* C5: with an empty secret no POST /deploy is answered 403, whatever the
\* headers X-Hub-Signature-256 and X-Webhook-Secret carry.
C5_OpenModeNever403 ==
    (WEBHOOK_SECRET = "" /\ DeployPost) => 403 \notin Codes

\* C5 happens: open mode, a wrong shared secret and a malformed signature,
\* and the deployment ran and was answered 200.
C5_Witness ==
    /\ Done
    /\ WEBHOOK_SECRET = ""
    /\ DeployPost
    /\ req.xws = Some("wrong")
    /\ req.xhs = Some("sha256=zz")
    /\ auth = "authorized"
    /\ Codes = {200}

-----------------------------------------------------------------------------
(* C6 - C10: dispatch and execution *)

CheckBodies == {"{\"action\":\"check\"}"}

\* Bodies with no action field, and the body that names deploy.
DefaultBodies == {EmptyBody, "{}", "{\"source\":\"ci\"}", "not json"}
DeployBodies == DefaultBodies \cup {"{\"action\":\"deploy\"}"}

Dispatched == pc \in {"running", "returned", "done"}

\* C6: an authorized POST /deploy with action "check" runs the script with
\* the single argument --check and a 60 s timeout, one that selects deploy
\* runs it with the single argument --auto and a 300 s timeout, both in the
\* deployment root; no other argument list or timeout is ever used.
C6_InvocationByAction ==
    /\ \A i \in DOMAIN invocations :
         \/ invocations[i] = [argv |-> <<script_path, "--check">>,
                              timeout |-> 60, cwd |-> AUTOMEM_DIR]
         \/ invocations[i] = [argv |-> <<script_path, "--auto">>,
                              timeout |-> 300, cwd |-> AUTOMEM_DIR]
    /\ (Dispatched /\ auth = "authorized" /\ WellFramed
            /\ req.body \in CheckBodies)
       => invocations = <<[argv |-> <<script_path, "--check">>,
                           timeout |-> 60, cwd |-> AUTOMEM_DIR]>>
    /\ (Dispatched /\ auth = "authorized" /\ WellFramed
            /\ req.body \in DeployBodies /\ script # "missing")
       => invocations = <<[argv |-> <<script_path, "--auto">>,
                           timeout |-> 300, cwd |-> AUTOMEM_DIR]>>

\* C6 happens: an authorized check request ran the script with --check and
\* was answered.
C6_Witness ==
    /\ Done
    /\ auth = "authorized"
    /\ req.body \in CheckBodies
    /\ Len(invocations) = 1
    /\ invocations[1].argv = <<script_path, "--check">>
    /\ child = "exited"
    /\ Codes = {200}

\* C7: for deploy and for check, a script that completes within its timeout
\* with a nonzero exit code yields one 500 response with status "error" and
\* the tail of stderr, never a 200 response; with exit code 0 it yields 200.
C7_ExitCodeDecidesStatus ==
    (Done /\ result.kind = "CompletedProcess" /\ raised = "")
    => /\ Len(responses) = 1
       /\ IF result.returncode = 0
          THEN responses[1].code = 200
          ELSE /\ responses[1].code = 500
               /\ responses[1].status = "error"
               /\ responses[1].field = "error"
               /\ responses[1].output = Tail1000(result.stderr)

\* C8: for deploy and for check, a script that outlives its timeout yields
\* 504 without any of its output, and its child has been terminated when the
\* response is written.
C8_TimeoutIs504 ==
    /\ (Done /\ result.kind = "TimeoutExpired" /\ conn = "open")
       => /\ Len(responses) = 1
          /\ responses[1].code = 504
          /\ responses[1].field = ""
          /\ child = "killed"
    /\ responses # <<>> => child # "running"

\* C9: for deploy and for check, when the script path does not exist the
\* authorized request is answered with one 500 response, and no child
\* process is spawned or attempted.
C9_MissingScriptIs500 ==
    (Done /\ auth = "authorized" /\ action \in {"deploy", "check"}
          /\ script = "missing" /\ conn = "open")
    => /\ invocations = <<>>
       /\ child = "none"
       /\ Len(responses) = 1
       /\ responses[1].code = 500

\* Bodies that are not parseable as JSON, or are JSON without a field action.
NoActionBodies == DefaultBodies \cup {"[]", "<FF>"}

\* C10: an authorized POST /deploy whose body is empty, is not parseable as
\* JSON, or is JSON without the field action is dispatched as deploy, and
\* its body never makes it fail.
C10_DefaultActionIsDeploy ==
    (Done /\ auth = "authorized" /\ WellFramed /\ req.body \in NoActionBodies)
    => (action = "deploy" /\ raised \notin {"AttributeError",
                                            "UnicodeDecodeError"})

-----------------------------------------------------------------------------
(* C11, C12 *)

\* JSON objects whose action is neither "deploy" nor "check".
UnknownActionBodies == {"{\"action\":\"restart\"}", "{\"action\":null}"}

C12_AtMostOneInvocation == Len(invocations) <= 1

\* C12 happens: the one invocation of a request timed out and the request
\* has ended.
C12_Witness ==
    /\ Done
    /\ Len(invocations) = 1
    /\ result.kind = "TimeoutExpired"
    /\ child = "killed"

-----------------------------------------------------------------------------
(* C13, C14: routing *)

GetHealth == req.method = "GET" /\ req.path = "/health"

\* C13: GET /health is answered 200 with the fixed body {status: "healthy",
\* service: "automem-webhook"}, whatever headers it carries and whatever
\* secret is configured, and it never invokes the script.
C13_HealthIsFixed ==
    (Done /\ GetHealth)
    => /\ Len(responses) = 1
       /\ [responses[1] EXCEPT !.complete = TRUE] =
            [code |-> 200, kind |-> "json", status |-> "healthy",
             service |-> "automem-webhook", message |-> <<>>, field |-> "",
             output |-> [from |-> 0, to |-> 0], complete |-> TRUE]
       /\ (conn = "open" => responses[1].complete)
       /\ invocations = <<>>
       /\ child = "none"

\* C13 happens: with a secret configured, GET /health with a wrong shared
\* secret and a malformed signature was answered 200.
C13_Witness ==
    /\ Done
    /\ GetHealth
    /\ WEBHOOK_SECRET = "s3cret"
    /\ req.xws = Some("wrong")
    /\ req.xhs = Some("sha256=zz")
    /\ Codes = {200}

\* C14: every request that is neither POST /deploy nor GET /health is
\* answered 404, for every method and path, without authentication and
\* without invoking the script.
C14_EverythingElseIs404 ==
    (Done /\ ~DeployPost /\ ~GetHealth)
    => /\ Codes = {404}
       /\ auth = ""
       /\ invocations = <<>>

-----------------------------------------------------------------------------
(* C15: bounded output *)

\* C15: for every action, the stream carried by a response (output for
\* stdout, error for stderr) is the last 1000 units of what the script
\* wrote on that stream, and the whole stream when it wrote 1000 or fewer.
C15_OutputIsLast1000 ==
    (Done /\ Len(responses) = 1 /\ result.kind = "CompletedProcess")
    => /\ responses[1].field = "output"
            => /\ responses[1].output = Tail1000(result.stdout)
               /\ StreamLen(responses[1].output) <= TAIL
       /\ responses[1].field = "error"
            => /\ responses[1].output = Tail1000(result.stderr)
               /\ StreamLen(responses[1].output) <= TAIL

-----------------------------------------------------------------------------
(* C17: order of the steps of one request *)

\* C17: the script is invoked only for a request that has passed
\* authentication and whose action is deploy or check, a request answered
\* 403 never causes an invocation, and nothing is written to the client
\* while the child process is still running.
C17_AuthDispatchExecuteRespond ==
    /\ invocations # <<>>
         => /\ auth = "authorized"
            /\ action \in {"deploy", "check"}
            /\ invocations[1] = IF action = "deploy" THEN DeployInvocation
                                                     ELSE CheckInvocation
    /\ (auth = "forbidden" \/ 403 \in Codes)
         => /\ invocations = <<>>
            /\ child = "none"
            /\ action = ""
    /\ child = "running" => responses = <<>>
    /\ responses # <<>> => child \in {"none", "exited", "killed"}

\* C17 happens: an authenticated check request was answered after its child
\* had exited.
C17_Witness ==
    /\ Done
    /\ WEBHOOK_SECRET = "s3cret"
    /\ auth = "authorized"
    /\ action = "check"
    /\ invocations = <<CheckInvocation>>
    /\ child = "exited"
    /\ Codes = {200}

-----------------------------------------------------------------------------
(* C18: scheduling *)

\* C18: requests are handled on one thread per connection: while the
\* executor of one request is blocked on its child process the server
\* takes up another request, so that two requests are handled, and two
\* children run, at the same time.
C18_ThreadPerConnection ==
    (pc = "running" /\ child = "running" /\ handled + 1 < MaxRequests)
    => ENABLED Accept

-----------------------------------------------------------------------------
(* C20: logging is best-effort *)

\* C20: whatever a step of a handler does when the append to the log file
\* succeeds it also does when the append fails, and conversely: the
\* responses written, the exception raised, the invocation of the script
\* and every other effect of the step are the same in both cases.
C20_LogFailureChangesNothing ==
    [][\A f \in LogFileStates, g \in LogFileStates :
          /\ do_GET_with(f) => do_GET_with(g)
          /\ UnsupportedMethod_with(f) => UnsupportedMethod_with(g)
          /\ do_POST_with(f) => do_POST_with(g)
          /\ do_POST_result_with(f) => do_POST_result_with(g)]_vars

\* C20 happens: with the log file unwritable a deploy ran the script with
\* --auto and was answered 200.
C20_Witness ==
    /\ Done
    /\ logfile = "unwritable"
    /\ action = "deploy"
    /\ invocations = <<DeployInvocation>>
    /\ result.kind = "CompletedProcess"
    /\ result.returncode = 0
    /\ Codes = {200}

-----------------------------------------------------------------------------
(* C19: the listener survives every request *)

\* C19: whatever happens to a request, a raising handler included, its
\* handling ends and the server is back at accepting connections; and a
\* GET /health received after the handler of an earlier request has raised
\* is eventually answered 200.
C19_ListenerSurvives ==
    /\ (pc # "idle") ~> (pc = "idle")
    /\ (pc = "received" /\ GetHealth /\ traceback)
          ~> (Done /\ GetHealth /\ traceback /\ Codes = {200})

\* C19 happens: after a request whose handler raised, GET /health was
\* answered 200.
C19_Witness ==
    /\ Done
    /\ GetHealth
    /\ traceback
    /\ handled >= 1
    /\ Codes = {200}
    /\ raised = ""


-----------------------------------------------------------------------------
(* C16: the dimension of the vectors *)

\* The vectors of the API's result that the call looks at: the first for
\* generate_embedding, all of them for generate_embeddings_batch.
Examined ==
    IF call.method = "generate_embedding"
    THEN {i \in DOMAIN api.embeddings : i = 1}
    ELSE DOMAIN api.embeddings

\* C16: a call of the provider either raises and returns no vector, or
\* returns only vectors of exactly dimension() components; it raises
\* whenever a vector of the API's result, at any index of a batch, has
\* another length.
C16_DimensionOrError ==
    provider_pc = "returned"
    => /\ embed_exc = "" => \A i \in DOMAIN returned :
                                Len(returned[i]) = dimension
       /\ embed_exc # "" => returned = <<>>
       /\ (\E i \in Examined : Len(api.embeddings[i]) # dimension)
            => embed_exc = "ValueError" /\ returned = <<>>

\* C16 happens: the API answered a batch with a vector of the configured
\* length followed by a longer one, and the call raised.
C16_Witness ==
    /\ provider_pc = "returned"
    /\ call.method = "generate_embeddings_batch"
    /\ Len(api.embeddings) = 2
    /\ Len(api.embeddings[1]) = dimension
    /\ Len(api.embeddings[2]) = dimension + 1
    /\ embed_exc = "ValueError"
    /\ returned = <<>>


====
